---- MODULE Spec2Model ----
(***************************************************************************)
(* Model of bibxml-service's query utilities (main/query_utils.py) and of  *)
(* its Crossref DOI mapper (doi/crossref.py).                              *)
(*                                                                         *)
(* The functions are stateless; the state of the model is the last call    *)
(* (its inputs), where the call stands (pc), what it gave back (a return   *)
(* value or a raised error), what it wrote to the log, how many requests   *)
(* it sent to the Crossref provider, and whether the ipdb package is       *)
(* installed where the service runs.  The functions of query_utils run in  *)
(* one step; get_bibitem waits twice, for the answer of Crossref and at    *)
(* the debugger breakpoint of line 214, and is a step per stretch.         *)
(*                                                                         *)
(* Python values: None of a string-valued field is the string "None"; an   *)
(* Optional object is a sequence of length 0 (None) or 1; a dict with      *)
(* string keys is a TLA+ function on a set of strings; text whose          *)
(* substrings matter is a sequence of fragments.                           *)
(***************************************************************************)
EXTENDS FiniteSets, Integers, Sequences, TLC

VARIABLES call, ret, log, provider_requests, pc, ipdb_installed

vars == <<call, ret, log, provider_requests, pc, ipdb_installed>>

-----------------------------------------------------------------------------
(* Bounds *)

\* longest list of document identifiers handed to get_primary_docid
MaxIds == 2
\* longest list of physical records handed to compose_bibitem
MaxRefs == 2
\* longest database error message, in fragments
MaxFragments == 2

-----------------------------------------------------------------------------
(* Helpers *)

None == "None"

SeqsUpTo(S, n) == UNION {[1..k -> S] : k \in 0..n}

Range(s) == {s[i] : i \in DOMAIN s}

-----------------------------------------------------------------------------
(* main/query_utils.py: get_primary_docid *)

DocIdStrings == {"a", "b"}

\* DocID objects as they appear under "docid" in deserialized Relaton data
DocIDs ==
    [type : DocIdStrings \cup {None}, id : DocIdStrings \cup {None},
     scope : {None, "part"}, primary : BOOLEAN]

\* the filter of the list comprehension: primary, id and type set, no scope
is_primary_docid(docid) ==
    /\ docid.primary = TRUE
    /\ docid.id # None
    /\ docid.type # None
    /\ docid.scope = None

\* primary_docids: the identifiers that pass the filter, in their order
primary_docids_of(raw_ids) == SelectSeq(raw_ids, is_primary_docid)

\* mutant: the pairs are told apart by their order, as (id, type) tuples
deduped_by_tuple(raw_ids) ==
    {<<d.id, d.type>> : d \in Range(primary_docids_of(raw_ids))}

\* set([frozenset([id.id, id.type]) for id in primary_docids])
deduped(raw_ids) ==
    {{d.id, d.type} : d \in Range(primary_docids_of(raw_ids))}

\* try: return primary_docids[0]  except IndexError: return None
first_primary_docid(raw_ids) ==
    LET p == primary_docids_of(raw_ids)
    IN  IF p = <<>> THEN <<>> ELSE <<p[1]>>

get_primary_docid(raw_ids) ==
    [value  |-> first_primary_docid(raw_ids),
     warned |-> Cardinality(deduped(raw_ids)) # 1]

-----------------------------------------------------------------------------
(* main/query_utils.py: query_suppressing_user_input_error *)

Fragments ==
    {"invalid regular expression", "syntax error", "jsonpath input",
     "unexpected end of quoted string", "violates foreign key constraint"}

\* django.db.utils error classes; the first two are the ones caught
CaughtCategories == {"ProgrammingError", "DataError"}
Categories == CaughtCategories \cup {"IntegrityError"}

Messages == SeqsUpTo(Fragments, MaxFragments)

Exceptions == [category : Categories, message : Messages]

\* repr(exc): the class name, then the message between parentheses
repr(exc) == <<exc.category, "(">> \o exc.message \o <<")">>

\* phrase in text
Contains(text, phrase) == \E i \in DOMAIN text : text[i] = phrase

\* mutant: the two jsonpath patterns no longer ask for "jsonpath input"
is_benign_without_jsonpath(exc) ==
    LET err == repr(exc)
    IN  \/ Contains(err, "invalid regular expression")
        \/ Contains(err, "syntax error")
        \/ Contains(err, "unexpected end of quoted string")

is_benign_user_input_error(exc) ==
    LET err == repr(exc)
    IN  \/ Contains(err, "invalid regular expression")
        \/ Contains(err, "syntax error") /\ Contains(err, "jsonpath input")
        \/ /\ Contains(err, "unexpected end of quoted string")
           /\ Contains(err, "jsonpath input")

\* what the thunk does: it raises when called, or the query set it returns
\* raises when evaluated by len(), or the evaluation gives the rows
Thunks ==
    [raises : {"no"}, rows : {<<>>, <<"ref1">>, <<"ref1", "ref2">>}]
    \cup [raises : {"call", "evaluation"}, exc : Exceptions]

query_suppressing_user_input_error(query) ==
    IF query.raises = "no"
    THEN [outcome |-> "return", value |-> <<query.rows>>]
    ELSE IF query.exc.category \in CaughtCategories
         THEN IF ~ is_benign_user_input_error(query.exc)
              THEN [outcome |-> "raise", exc |-> query.exc]
              ELSE [outcome |-> "return", value |-> <<>>]
         ELSE [outcome |-> "raise", exc |-> query.exc]

-----------------------------------------------------------------------------
(* doi/crossref.py *)

RECURSIVE Join(_, _)
\* sep.join(parts)
Join(parts, sep) ==
    IF parts = <<>> THEN ""
    ELSE IF Len(parts) = 1 THEN parts[1]
    ELSE parts[1] \o sep \o Join(Tail(parts), sep)

\* A Python str that the code may split on " " is kept as its words.
Text(words) == Join(words, " ")
Str(words) == [kind |-> "str", words |-> words]
List(items) == [kind |-> "list", items |-> items]

\* resp.get(key, False) used as a condition: the key is there and its value
\* is not an empty str, list or dict
Truthy(field) ==
    /\ field # <<>>
    /\ \/ field[1].kind = "str" /\ Text(field[1].words) # ""
       \/ field[1].kind = "list" /\ field[1].items # <<>>

\* common.util.as_list: a list stays, anything else becomes a one-item list
as_list(value) ==
    IF value.kind = "list" THEN value.items ELSE <<value>>

ALT_TITLES ==
    <<"subtitle", "original-title", "short-title", "container-title",
      "short-container-title", "group-title">>

\* ISBN_TMPL.format(*isbn): the 13 characters in groups of 3-1-4-4-1
ISBN_TMPL(isbn) ==
    isbn[1] \o isbn[2] \o isbn[3] \o "-" \o isbn[4] \o "-"
    \o isbn[5] \o isbn[6] \o isbn[7] \o isbn[8] \o "-"
    \o isbn[9] \o isbn[10] \o isbn[11] \o isbn[12] \o "-" \o isbn[13]

\* an ISBN is kept as its characters
Isbn13 == <<"9", "7", "8", "3", "1", "6", "1", "4", "8", "4", "1", "0", "0">>
Isbn10 == <<"3", "1", "6", "1", "4", "8", "4", "1", "0", "0">>

ExampleAuthor ==
    [family |-> <<"Smith">>, given |-> <<"J">>, name |-> <<>>,
     affiliation |-> <<[name |-> "Acme"]>>]
ExampleEditor ==
    [family |-> <<>>, given |-> <<>>, name |-> <<"Ed Itor">>,
     affiliation |-> <<>>]

\* The optional fields of a Crossref work that do not take part in the
\* series info: none of them, those of the end-to-end example, or all.
Extras ==
    { [ISSN |-> <<>>, ISBN |-> <<>>, author |-> <<>>, editor |-> <<>>,
       translator |-> <<>>, chair |-> <<>>, language |-> <<>>,
       abstract |-> <<>>, subtitle |-> <<>>],
      [ISSN |-> <<"1234-5678">>, ISBN |-> <<>>, author |-> <<ExampleAuthor>>,
       editor |-> <<>>, translator |-> <<>>, chair |-> <<>>,
       language |-> <<>>, abstract |-> <<>>, subtitle |-> <<>>],
      [ISSN |-> <<"1234-5678">>, ISBN |-> <<Isbn13, Isbn10>>,
       author |-> <<ExampleAuthor>>, editor |-> <<ExampleEditor>>,
       translator |-> <<>>, chair |-> <<>>, language |-> <<"en">>,
       abstract |-> <<"An abstract">>,
       subtitle |-> <<List(<<Str(<<"Sub">>)>>)>>] }

ContainerTitles ==
    { <<>>,
      <<Str(<<"Journal", "of", "Examples">>)>>,
      <<Str(<<"Nature">>)>>,
      <<List(<<Str(<<"Journal", "of", "Examples">>)>>)>>,
      <<List(<<>>)>> }

\* Crossref works: a DOI, a title and a URL are always there
RawRecords ==
    { [DOI |-> "10.1000/182", title |-> <<"Example Title">>,
       URL |-> "https://doi.org/10.1000/182",
       containerTitle |-> ct, volume |-> v, journalIssue |-> ji, page |-> p,
       publisher |-> pub, type |-> ty, extras |-> x] :
        ct \in ContainerTitles,
        v \in {<<>>, <<Str(<<"5">>)>>},
        ji \in {<<>>, <<[issue |-> <<>>]>>, <<[issue |-> <<Str(<<"2">>)>>]>>},
        p \in {<<>>, <<Str(<<"1-10">>)>>},
        pub \in {<<>>, <<Str(<<"Acme", "Press">>)>>},
        ty \in {<<>>, <<Str(<<"journal-article">>)>>},
        x \in Extras }

DOIDocIDs == [type : {"DOI", "ISBN"}, id : {"10.1000/182"}]

\* works.doi(docid.id): the work, or nothing
ProviderAnswers == {<<>>} \cup {<<r>> : r \in RawRecords}

\* to_contributor(role, crossref_author)
to_contributor(role, crossref_author) ==
    [role |-> <<role>>,
     person |->
       [affiliation |->
          [i \in DOMAIN crossref_author.affiliation |->
             [organization |->
                [name |-> <<crossref_author.affiliation[i].name>>,
                 contact |-> <<>>, url |-> None, abbreviation |-> None]]],
        name |->
          [surname |->
             IF crossref_author.family # <<>>
             THEN <<[content |-> crossref_author.family[1]]>> ELSE <<>>,
           completename |->
             IF crossref_author.name # <<>>
             THEN <<[content |-> crossref_author.name[1]]>> ELSE <<>>,
           forename |->
             IF crossref_author.given # <<>>
             THEN <<[content |-> crossref_author.given[1]]>> ELSE <<>>]]]

\* if len(isbn) == 13
is_isbn13(isbn) == Len(isbn) = 13

\* docids: the DOI, every ISSN, every ISBN of 13 characters, reformatted
crossref_docids(resp) ==
    <<[type |-> "DOI", id |-> resp.DOI]>>
    \o [i \in DOMAIN resp.extras.ISSN |->
          [type |-> "ISSN", id |-> resp.extras.ISSN[i]]]
    \o LET kept == SelectSeq(resp.extras.ISBN, is_isbn13)
       IN  [i \in DOMAIN kept |-> [type |-> "ISBN", id |-> ISBN_TMPL(kept[i])]]

\* contributors before the series info is looked at
crossref_contributors(resp) ==
    [i \in DOMAIN resp.extras.author |->
       to_contributor("author", resp.extras.author[i])]
    \o [i \in DOMAIN resp.extras.editor |->
       to_contributor("editor", resp.extras.editor[i])]
    \o [i \in DOMAIN resp.extras.translator |->
       to_contributor("translator", resp.extras.translator[i])]
    \o [i \in DOMAIN resp.extras.chair |->
       to_contributor("chair", resp.extras.chair[i])]

\* Title(content=title, type=None) for the titles, then the alternate titles
crossref_titles(resp) ==
    LET alt(tid) ==
          IF tid = "subtitle" THEN resp.extras.subtitle
          ELSE IF tid = "container-title" THEN resp.containerTitle
          ELSE <<>>
        of(tid) ==
          IF alt(tid) = <<>> THEN <<>>
          ELSE LET l == as_list(alt(tid)[1])
               IN  [i \in DOMAIN l |->
                      [content |-> Text(l[i].words), type |-> tid]]
        A[n \in 0..Len(ALT_TITLES)] ==
          IF n = 0 THEN <<>> ELSE A[n-1] \o of(ALT_TITLES[n])
    IN  [i \in DOMAIN resp.title |-> [content |-> resp.title[i], type |-> None]]
        \o A[Len(ALT_TITLES)]

\* "vol. N", with ", no. M" when the journal issue has an issue number
volume_info(resp) ==
    "vol. " \o Text(resp.volume[1].words)
    \o IF resp.journalIssue # <<>> /\ Truthy(resp.journalIssue[1].issue)
       THEN ", no. " \o Text(resp.journalIssue[1].issue[1].words)
       ELSE ""

Raise(name) == [error |-> name]

\* The series info block.  The result holds the local variables the rest of
\* the function reads: a local that no branch assigned is absent (<<>>).
\* A raised error ends the function.
series_info_block(resp, contributors) ==
    IF Truthy(resp.containerTitle)
    THEN LET ct == resp.containerTitle[1]
             vi == IF Truthy(resp.volume) THEN <<volume_info(resp)>> ELSE <<>>
             info == vi \o IF Truthy(resp.page)
                           THEN <<"pp. " \o Text(resp.page[1].words)>>
                           ELSE <<>>
         IN  IF info # <<>>
             THEN \* series_info["seriesinfo"][ct]: a list is no dict key
                  IF ct.kind = "list" THEN Raise("TypeError")
                  ELSE [error |-> None,
                        seriesinfo |-> Text(ct.words) :> Join(info, ", "),
                        contributors |-> contributors,
                        vi |-> vi, info |-> <<info>>]
             ELSE \* ct.split(" "): a list has no split
                  IF ct.kind = "list" THEN Raise("AttributeError")
                  ELSE LET spl == ct.words
                       IN  [error |-> None,
                            seriesinfo |->
                              Text(SubSeq(spl, 1, Len(spl) - 1)) :> spl[Len(spl)],
                            contributors |-> contributors,
                            vi |-> vi, info |-> <<info>>]
    ELSE IF Truthy(resp.publisher)
    THEN LET publisher == resp.publisher[1]
             info == IF Truthy(resp.type)
                     THEN <<Text(resp.type[1].words)>> ELSE <<>>
             spl == publisher.words
         IN  [error |-> None,
              seriesinfo |->
                IF info # <<>>
                THEN Text(publisher.words) :> Join(info, ", ")
                ELSE Text(SubSeq(spl, 1, Len(spl) - 1)) :> spl[Len(spl)],
              contributors |->
                Append(contributors,
                       [role |-> <<"publisher">>,
                        organization |-> [name |-> Text(publisher.words)]]),
              vi |-> <<>>, info |-> <<info>>]
    ELSE [error |-> None, seriesinfo |-> <<>>, contributors |-> contributors,
          vi |-> <<>>, info |-> <<>>]

\* data = dict(...): reading a local that was never assigned raises
\* UnboundLocalError; vi is read first, then info
candidate_data(resp, locals) ==
    IF locals.vi = <<>> \/ locals.info = <<>> THEN Raise("UnboundLocalError")
    ELSE [error |-> None,
          data |->
            [docid |-> crossref_docids(resp),
             language |-> resp.extras.language,
             title |-> crossref_titles(resp),
             link |-> <<[content |-> resp.URL]>>,
             abstract |->
               [i \in DOMAIN resp.extras.abstract |->
                  [content |-> resp.extras.abstract[i]]],
             contributor |-> locals.contributors,
             series_info |-> [seriesinfo |-> locals.seriesinfo],
             volume |-> locals.vi,
             page |-> IF Len(locals.info[1]) > 0
                      THEN <<locals.info[1][1]>> ELSE <<>>]]

\* BibliographicItem(**data) when the schema accepts the data, and
\* BibliographicItem.construct(**data), which does not ask the schema
BibliographicItem(data) == [validated |-> TRUE, fields |-> data]
BibliographicItem_construct(data) == [validated |-> FALSE, fields |-> data]

ValidationMessage == "validation error for BibliographicItem"

\* mutant: the error is caught whatever strict says
construct_always_tolerant(data, strict, accepted) ==
    IF accepted
    THEN [error |-> None, bibitem |-> BibliographicItem(data), errors |-> <<>>]
    ELSE [error |-> None, bibitem |-> BibliographicItem_construct(data),
          errors |-> <<ValidationMessage>>]

\* The end of get_bibitem: the strict or tolerant construction.  accepted is
\* the verdict of the Relaton schema on the data.
construct_strict_or_not(data, strict, accepted) ==
    IF strict
    THEN IF accepted
         THEN [error |-> None, bibitem |-> BibliographicItem(data),
               errors |-> <<>>]
         ELSE Raise("ValidationError")
    ELSE IF accepted
         THEN [error |-> None, bibitem |-> BibliographicItem(data),
               errors |-> <<>>]
         ELSE [error |-> None, bibitem |-> BibliographicItem_construct(data),
               errors |-> <<ValidationMessage>>]

Pending == [outcome |-> "none"]

\* mutant: Crossref is asked whatever the type of the identifier is
begin_fetch_first(docid) ==
    [pc |-> "works.doi", result |-> Pending, requests |-> 1]

\* get_bibitem up to the request: the type of the identifier, then
\* works.doi(docid.id).  requests counts the calls of works.doi.
begin_get_bibitem(docid) ==
    IF docid.type # "DOI"
    THEN [pc |-> "done",
          result |-> [outcome |-> "raise", exc |-> "ValueError"],
          requests |-> 0]
    ELSE [pc |-> "works.doi", result |-> Pending, requests |-> 1]

\* get_bibitem from the answer of Crossref to the data dict: it raises, or
\* it stands before line 214, import ipdb; ipdb.set_trace()
after_works_doi(answer) ==
    IF answer = <<>>
    THEN [pc |-> "done",
          result |-> [outcome |-> "raise", exc |-> "RefNotFoundError"]]
    ELSE
    LET resp == answer[1]
        locals == series_info_block(resp, crossref_contributors(resp))
    IN  IF locals.error # None
        THEN [pc |-> "done",
              result |-> [outcome |-> "raise", exc |-> locals.error]]
        ELSE
    LET cand == candidate_data(resp, locals)
    IN  IF cand.error # None
        THEN [pc |-> "done",
              result |-> [outcome |-> "raise", exc |-> cand.error]]
        ELSE [pc |-> "set_trace", result |-> Pending]

\* get_bibitem after the breakpoint: the construction and the return
after_set_trace(resp, strict, accepted) ==
    LET locals == series_info_block(resp, crossref_contributors(resp))
        cand == candidate_data(resp, locals)
        built == construct_strict_or_not(cand.data, strict, accepted)
    IN  IF built.error # None
        THEN [outcome |-> "raise", exc |-> built.error]
        ELSE [outcome |-> "return",
              value |->
                [source |-> [id |-> "crossref-api",
                             home_url |-> "http://api.crossref.org"],
                 bibitem |-> built.bibitem,
                 validation_errors |-> built.errors,
                 requests |-> <<>>]]

-----------------------------------------------------------------------------
(* main/query_utils.py: compose_bibitem *)

Datasets == {"rfcs", "misc"}
RefNames == {"RFC0001", "RFC0002"}

IdA == [type |-> "a", id |-> "b", scope |-> None, primary |-> TRUE]
IdB == [type |-> "b", id |-> "a", scope |-> None, primary |-> FALSE]

\* RefData.body: Relaton data as stored; a field that is not there is <<>>
Bodies ==
    { [docid |-> <<>>, title |-> <<"T1">>],
      [docid |-> <<IdA>>, title |-> <<"T1">>],
      [docid |-> <<IdB>>, title |-> <<>>],
      [docid |-> <<IdB>>, title |-> <<"T2">>] }

RefDatas == [dataset : Datasets, ref : RefNames, body : Bodies]

\* what a caller may pass as primary_id: nothing, or an identifier
PrimaryIds ==
    { <<>>,
      <<IdA>>,
      <<[type |-> "a", id |-> "b", scope |-> "part", primary |-> TRUE]>>,
      <<IdB>> }

\* main.sources.get_source_meta(dataset_id)
get_source_meta(dataset) == [id |-> dataset]

\* main.sources.get_indexed_object_meta(dataset_id, ref)
get_indexed_object_meta(dataset, ref) == [dataset |-> dataset, name |-> ref]

\* The Relaton schema on stored data: a record needs an identifier.
Validates(body) == body.docid # <<>>

\* bib_models.construct_bibitem(data, strict): (bibitem, validation_errors),
\* validation_errors being None (<<>>) when the data validated and the list
\* of errors (<<list>>) otherwise; with strict the error is raised instead
construct_bibitem(body, strict) ==
    IF Validates(body)
    THEN [error |-> None, bibitem |-> BibliographicItem(body), errors |-> <<>>]
    ELSE IF strict THEN Raise("ValidationError")
    ELSE [error |-> None, bibitem |-> BibliographicItem_construct(body),
          errors |-> << <<ValidationMessage>> >>]

\* bib_models.merger.bibitem_merger.merge(base, body): a scalar that base
\* has stays, a list is extended
merge(base, body) ==
    [docid |-> base.docid \o body.docid,
     title |-> IF base.title # <<>> THEN base.title ELSE body.title]

\* sourced_id = f'{ref.ref}@{source.id}'
sourced_id(ref, source) == ref.ref \o "@" \o source.id

\* mutant: the flag follows the last record only
encountered_last_only(validation_errors_encountered, validation_errors) ==
    validation_errors # <<>>

\* if validation_errors is not None: validation_errors_encountered = True
encountered_after(validation_errors_encountered, validation_errors) ==
    IF validation_errors # <<>> THEN TRUE ELSE validation_errors_encountered

\* sources[sourced_id] = IndexedBibliographicItem(...)
sources_after(sources, ref, bibitem, validation_errors) ==
    LET source == get_source_meta(ref.dataset)
        obj == get_indexed_object_meta(ref.dataset, ref.ref)
    IN  (sourced_id(ref, source) :>
           [indexed_object |-> obj, source |-> source, bibitem |-> bibitem,
            validation_errors |-> validation_errors])
        @@ sources

\* The for loop over refs: the locals after the first n records, or the
\* error that a record raised
RECURSIVE compose_loop(_, _, _)
compose_loop(refs, n, strict) ==
    IF n = 0
    THEN [error |-> None, base |-> [docid |-> <<>>, title |-> <<>>],
          sources |-> <<>>, validation_errors_encountered |-> FALSE]
    ELSE LET before == compose_loop(refs, n - 1, strict)
             ref == refs[n]
             built == construct_bibitem(ref.body, strict)
         IN  IF before.error # None THEN before
             ELSE IF built.error # None THEN Raise(built.error)
             ELSE [error |-> None,
                   base |-> merge(before.base, ref.body),
                   sources |->
                     sources_after(before.sources, ref, built.bibitem,
                                   built.errors),
                   validation_errors_encountered |->
                     encountered_after(before.validation_errors_encountered,
                                       built.errors)]

\* composite = {**base, 'sources': sources, 'primary_docid': primary_id}
composite_of(base, sources, primary_id) ==
    [docid |-> base.docid, title |-> base.title, sources |-> sources,
     primary_docid |-> primary_id]

\* CompositeSourcedBibliographicItem(**composite), the full validation: the
\* merged fields hold an identifier, and primary_docid, when there is one,
\* is primary with an id and a type and no scope
CompositeValidates(composite) ==
    /\ composite.docid # <<>>
    /\ \/ composite.primary_docid = <<>>
       \/ LET d == composite.primary_docid[1]
          IN  d.primary /\ d.id # None /\ d.type # None /\ d.scope = None

\* the two returns: without validation when errors were suppressed, with
\* validation otherwise
compose_return(composite, strict, validation_errors_encountered) ==
    IF ~ strict /\ validation_errors_encountered
    THEN [result |->
            [outcome |-> "return",
             value |-> <<[validated |-> FALSE, fields |-> composite], FALSE>>],
          logged |-> <<"error">>]
    ELSE IF CompositeValidates(composite)
    THEN [result |->
            [outcome |-> "return",
             value |-> <<[validated |-> TRUE, fields |-> composite], TRUE>>],
          logged |-> <<>>]
    ELSE [result |-> [outcome |-> "raise", exc |-> "ValidationError"],
          logged |-> <<>>]

compose_bibitem(refs, primary_id, strict) ==
    LET locals == compose_loop(refs, Len(refs), strict)
    IN  IF locals.error # None
        THEN [result |-> [outcome |-> "raise", exc |-> locals.error],
              logged |-> <<>>]
        ELSE compose_return(
                 composite_of(locals.base, locals.sources, primary_id),
                 strict, locals.validation_errors_encountered)

-----------------------------------------------------------------------------
(* Actions *)

Init ==
    /\ call = [op |-> "none"]
    /\ ret = Pending
    /\ log = <<>>
    /\ provider_requests = 0
    /\ pc = "idle"
    /\ ipdb_installed \in BOOLEAN

Idle == pc = "idle"

CallGetPrimaryDocid ==
    /\ Idle
    /\ \E raw_ids \in SeqsUpTo(DocIDs, MaxIds) :
         LET r == get_primary_docid(raw_ids)
         IN  /\ call' = [op |-> "get_primary_docid", raw_ids |-> raw_ids]
             /\ ret' = [outcome |-> "return", value |-> r.value]
             /\ log' = IF r.warned THEN <<"warning">> ELSE <<>>
    /\ pc' = "done"
    /\ UNCHANGED <<provider_requests, ipdb_installed>>

CallQuery ==
    /\ Idle
    /\ \E query \in Thunks :
         /\ call' = [op |-> "query_suppressing_user_input_error",
                     query |-> query]
         /\ ret' = query_suppressing_user_input_error(query)
    /\ pc' = "done"
    /\ UNCHANGED <<log, provider_requests, ipdb_installed>>

\* get_bibitem(docid, strict) is called.  answer is what Crossref holds for
\* docid.id and accepted what the Relaton schema says of the data made from
\* it; the call comes to know them at works.doi and at the construction.
CallGetBibitem ==
    /\ Idle
    /\ \E docid \in DOIDocIDs, strict \in BOOLEAN,
          answer \in ProviderAnswers, accepted \in BOOLEAN :
         LET r == begin_get_bibitem(docid)
         IN  /\ call' = [op |-> "get_bibitem", docid |-> docid,
                         strict |-> strict, answer |-> answer,
                         accepted |-> accepted]
             /\ ret' = r.result
             /\ provider_requests' = r.requests
             /\ pc' = r.pc
    /\ UNCHANGED <<log, ipdb_installed>>

\* works.doi returns
WorksDoiReturns ==
    /\ pc = "works.doi"
    /\ LET r == after_works_doi(call.answer)
       IN  /\ ret' = r.result
           /\ pc' = r.pc
    /\ UNCHANGED <<call, log, provider_requests, ipdb_installed>>

\* import ipdb where the package is not installed: ModuleNotFoundError
ImportIpdbFails ==
    /\ pc = "set_trace"
    /\ ~ ipdb_installed
    /\ ret' = [outcome |-> "raise", exc |-> "ModuleNotFoundError"]
    /\ pc' = "done"
    /\ UNCHANGED <<call, log, provider_requests, ipdb_installed>>

\* the call waits at the debugger prompt until the operator lets it go on
DebuggerContinue ==
    /\ pc = "set_trace"
    /\ ipdb_installed
    /\ ret' = after_set_trace(call.answer[1], call.strict, call.accepted)
    /\ pc' = "done"
    /\ UNCHANGED <<call, log, provider_requests, ipdb_installed>>

\* the operator quits the debugger, or its input is closed: bdb.BdbQuit
DebuggerQuit ==
    /\ pc = "set_trace"
    /\ ipdb_installed
    /\ ret' = [outcome |-> "raise", exc |-> "BdbQuit"]
    /\ pc' = "done"
    /\ UNCHANGED <<call, log, provider_requests, ipdb_installed>>

CallComposeBibitem ==
    /\ Idle
    /\ \E refs \in SeqsUpTo(RefDatas, MaxRefs), primary_id \in PrimaryIds,
          strict \in BOOLEAN :
         LET r == compose_bibitem(refs, primary_id, strict)
         IN  /\ call' = [op |-> "compose_bibitem", refs |-> refs,
                         primary_id |-> primary_id, strict |-> strict]
             /\ ret' = r.result
             /\ log' = r.logged
    /\ pc' = "done"
    /\ UNCHANGED <<provider_requests, ipdb_installed>>

\* the caller takes the result; the next call starts afresh
Finish ==
    /\ pc = "done"
    /\ call' = [op |-> "none"]
    /\ ret' = Pending
    /\ log' = <<>>
    /\ provider_requests' = 0
    /\ pc' = "idle"
    /\ UNCHANGED ipdb_installed

Next ==
    \/ CallGetPrimaryDocid
    \/ CallQuery
    \/ CallGetBibitem
    \/ WorksDoiReturns
    \/ ImportIpdbFails
    \/ DebuggerContinue
    \/ DebuggerQuit
    \/ CallComposeBibitem
    \/ Finish

Spec == Init /\ [][Next]_vars

-----------------------------------------------------------------------------
(* Properties *)

Composed == call.op = "compose_bibitem" /\ ret.outcome = "return"
\* get_bibitem has ended on a DOI for which Crossref has a work
Fetched ==
    /\ call.op = "get_bibitem"
    /\ call.docid.type = "DOI"
    /\ call.answer # <<>>
    /\ pc = "done"

\* the eligibility predicate of the primary identifier, as the
\* specification words it
Eligible(d) ==
    d.primary /\ d.id # None /\ d.type # None /\ d.scope = None

SomeBodyFailed(refs) == \E i \in DOMAIN refs : ~ Validates(refs[i].body)

\* C1: compose_bibitem returns is_valid = false exactly when strict is false
\* and the validation of at least one record failed; a non-strict call whose
\* records all validated returns is_valid = true.
C1_IsValidTellsFailures ==
    Composed =>
      /\ ret.value[2] = FALSE <=> (~ call.strict /\ SomeBodyFailed(call.refs))
      /\ (~ call.strict /\ ~ SomeBodyFailed(call.refs)) => ret.value[2] = TRUE

C1_Witness ==
    /\ Composed
    /\ ~ call.strict
    /\ Len(call.refs) = 2
    /\ ~ SomeBodyFailed(call.refs)
    /\ ret.value[2] = TRUE

\* C2: with strict = true a validation failure ends get_bibitem and
\* compose_bibitem with an error and nothing is returned; what a strict call
\* returns is a validated record with no errors, and is_valid = true.
C2_StrictIsAllOrNothing ==
    /\ (call.op = "get_bibitem" /\ call.strict) =>
         /\ (Fetched /\ ~ call.accepted) => ret.outcome = "raise"
         /\ ret.outcome = "return" =>
              /\ ret.value.bibitem.validated
              /\ ret.value.validation_errors = <<>>
    /\ (call.op = "compose_bibitem" /\ call.strict) =>
         /\ SomeBodyFailed(call.refs) => ret.outcome = "raise"
         /\ ret.outcome = "return" =>
              /\ ret.value[2] = TRUE
              /\ ret.value[1].validated
              /\ \A k \in DOMAIN ret.value[1].fields.sources :
                   LET e == ret.value[1].fields.sources[k]
                   IN  e.bibitem.validated /\ e.validation_errors = <<>>

C2_Witness ==
    /\ Fetched
    /\ call.strict
    /\ ~ call.accepted
    /\ ret.outcome = "raise"
    /\ ret.exc = "ValidationError"

\* C3 (as claimed): without strict, get_bibitem on a DOI for which Crossref
\* has a work always returns an item with a record and an error list, and
\* the list is empty exactly when the schema accepted the data.
C3_LenientAlwaysReturns ==
    (Fetched /\ ~ call.strict) =>
      /\ ret.outcome = "return"
      /\ ret.value.validation_errors = <<>> <=> call.accepted
      /\ ret.value.bibitem.validated <=> call.accepted

\* the key of a record in the sources map, "{reference}@{sourceId}"
KeyOf(ref) == ref.ref \o "@" \o ref.dataset

\* C4 (as claimed): every key of sources has the form reference@sourceId and
\* belongs to exactly one input record, and under the key of each record
\* are the item and the errors made from that record's body.
C4_OneRecordPerKey ==
    Composed =>
      LET sources == ret.value[1].fields.sources
          refs == call.refs
      IN  /\ \A k \in DOMAIN sources :
                /\ \E r \in RefNames, d \in Datasets : k = r \o "@" \o d
                /\ Cardinality({r \in Range(refs) : KeyOf(r) = k}) = 1
          /\ \A i \in DOMAIN refs :
                /\ KeyOf(refs[i]) \in DOMAIN sources
                /\ sources[KeyOf(refs[i])].bibitem.fields = refs[i].body
                /\ sources[KeyOf(refs[i])].validation_errors = <<>>
                     <=> Validates(refs[i].body)

EligibleIndexes(raw_ids) == {i \in DOMAIN raw_ids : Eligible(raw_ids[i])}
Candidates(raw_ids) ==
    {{raw_ids[i].id, raw_ids[i].type} : i \in EligibleIndexes(raw_ids)}
FirstIndex(S) == CHOOSE i \in S : \A j \in S : i <= j

\* C5: get_primary_docid returns None when no identifier is eligible and
\* else the first eligible one in the order given; it warns exactly when the
\* eligible identifiers, an id and a type counting as one candidate whatever
\* their order, make zero or more than one candidate.
C5_FirstEligibleAndWarning ==
    call.op = "get_primary_docid" =>
      LET E == EligibleIndexes(call.raw_ids)
      IN  /\ E = {} => ret.value = <<>>
          /\ E # {} => ret.value = <<call.raw_ids[FirstIndex(E)]>>
          /\ log # <<>> <=> Cardinality(Candidates(call.raw_ids)) # 1

C5_Witness ==
    /\ call.op = "get_primary_docid"
    /\ Len(call.raw_ids) = 2
    /\ Eligible(call.raw_ids[1])
    /\ Eligible(call.raw_ids[2])
    /\ call.raw_ids[1].id = call.raw_ids[2].id
    /\ call.raw_ids[1].type = call.raw_ids[2].type
    /\ call.raw_ids[1].id # call.raw_ids[1].type
    /\ ret.value = <<call.raw_ids[1]>>
    /\ log = <<>>

Has(message, phrase) == \E i \in DOMAIN message : message[i] = phrase

UserInputError(exc) ==
    /\ exc.category \in {"ProgrammingError", "DataError"}
    /\ \/ Has(exc.message, "invalid regular expression")
       \/ Has(exc.message, "syntax error") /\ Has(exc.message, "jsonpath input")
       \/ Has(exc.message, "unexpected end of quoted string")
          /\ Has(exc.message, "jsonpath input")

\* C6: query_suppressing_user_input_error returns the evaluated result when
\* nothing is raised, returns None exactly when the error is a
\* ProgrammingError or DataError whose text matches one of the three
\* patterns, and raises every other error unchanged.
C6_SuppressOnlyUserInputErrors ==
    call.op = "query_suppressing_user_input_error" =>
      IF call.query.raises = "no"
      THEN ret = [outcome |-> "return", value |-> <<call.query.rows>>]
      ELSE IF UserInputError(call.query.exc)
      THEN ret = [outcome |-> "return", value |-> <<>>]
      ELSE ret = [outcome |-> "raise", exc |-> call.query.exc]

C6_Witness ==
    /\ call.op = "query_suppressing_user_input_error"
    /\ call.query.raises = "evaluation"
    /\ call.query.exc.category = "DataError"
    /\ call.query.exc.message = <<"syntax error", "jsonpath input">>
    /\ ret = [outcome |-> "return", value |-> <<>>]

\* C7: get_bibitem looks at the type of the identifier before it asks
\* Crossref: a type other than DOI gives ValueError and no request; a DOI
\* for which Crossref has nothing gives RefNotFoundError, strict or not.
C7_TypeCheckedBeforeRequest ==
    call.op = "get_bibitem" =>
      /\ call.docid.type # "DOI" =>
           /\ ret = [outcome |-> "raise", exc |-> "ValueError"]
           /\ provider_requests = 0
      /\ (call.docid.type = "DOI" /\ call.answer = <<>> /\ pc = "done") =>
           /\ ret = [outcome |-> "raise", exc |-> "RefNotFoundError"]
           /\ provider_requests = 1

C7_Witness ==
    /\ call.op = "get_bibitem"
    /\ call.docid.type # "DOI"
    /\ call.answer # <<>>
    /\ ~ call.strict
    /\ ret.exc = "ValueError"
    /\ provider_requests = 0

\* C8 (as claimed): a work with neither a container-title nor a publisher
\* still gives an item, with an empty series info, volume and page not set
\* and no publisher among the contributors.
C8_NoContainerNoPublisher ==
    (/\ Fetched
     /\ call.accepted
     /\ call.answer[1].containerTitle = <<>>
     /\ call.answer[1].publisher = <<>>) =>
      /\ ret.outcome = "return"
      /\ ret.value.bibitem.fields.series_info.seriesinfo = <<>>
      /\ ret.value.bibitem.fields.volume = <<>>
      /\ ret.value.bibitem.fields.page = <<>>
      /\ \A i \in DOMAIN ret.value.bibitem.fields.contributor :
           ret.value.bibitem.fields.contributor[i].role # <<"publisher">>

\* the container-title as one string, and the descriptor the specification
\* asks for
ContainerTitleString(resp) ==
    LET ct == resp.containerTitle[1]
    IN  IF ct.kind = "list" THEN Text(ct.items[1].words) ELSE Text(ct.words)
Descriptor(resp) ==
    LET vol == IF resp.volume = <<>> THEN <<>>
               ELSE <<"vol. " \o Text(resp.volume[1].words)
                      \o IF resp.journalIssue = <<>>
                            \/ resp.journalIssue[1].issue = <<>>
                         THEN ""
                         ELSE ", no. "
                              \o Text(resp.journalIssue[1].issue[1].words)>>
        pp == IF resp.page = <<>> THEN <<>>
              ELSE <<"pp. " \o Text(resp.page[1].words)>>
    IN  Join(vol \o pp, ", ")

\* C9 (as claimed): a work with a container-title, one string or a list of
\* strings, and a volume or a page range gives a series info with one entry,
\* the container-title string mapped to "vol. N[, no. M]" and "pp. P" joined
\* by ", ", with or without a publisher.
C9_SeriesInfoOfContainerTitle ==
    (/\ Fetched
     /\ call.accepted
     /\ Truthy(call.answer[1].containerTitle)
     /\ call.answer[1].volume # <<>> \/ call.answer[1].page # <<>>) =>
      /\ ret.outcome = "return"
      /\ ret.value.bibitem.fields.series_info.seriesinfo
           = (ContainerTitleString(call.answer[1])
                :> Descriptor(call.answer[1]))

OptionalEligible(docid) == docid = <<>> \/ Eligible(docid[1])

\* C10 (as claimed): the primary_docid of every composite that
\* compose_bibitem returns is None or satisfies the eligibility predicate,
\* whatever primary_id was passed.
C10_PrimaryDocidEligible ==
    Composed => OptionalEligible(ret.value[1].fields.primary_docid)

====
